---------------------------- MODULE Spec2Model ----------------------------
(***************************************************************************)
(* A model of the Option-Critic trainer                                    *)
(* (src/Algorithms/option_critic/option_critic.py, class OptionCritic).    *)
(*                                                                         *)
(* The trainer is single-threaded.  Its public methods are called one at a *)
(* time from the position pc = "idle"; learn and learn_one_trial are       *)
(* followed through their control flow, one action per block of the loop   *)
(* body.  The collaborators that are not part of the source file (the      *)
(* environment, the network module, the replay buffer, the logger, the     *)
(* files of save_dir) are modelled by what the trainer requires of them;   *)
(* whatever they compute (observations, rewards, the done signal, the      *)
(* selected option, the sampled termination, the result of a gradient      *)
(* step) is a choice from a small set kept in the variable world.          *)
(*                                                                         *)
(* Real numbers are exact rationals <<n, d>> with d > 0; <<-1, 0>> stands  *)
(* for -infinity.  The floating-point rounding of the program is not       *)
(* modelled.                                                               *)
(***************************************************************************)
EXTENDS Integers, Sequences, FiniteSets, TLC

(***************************************************************************)
(* Bounds of the model.                                                    *)
(***************************************************************************)
\* learn / learn_one_trial are called with timesteps in 1..MaxTimesteps
MaxTimesteps == 3
\* learn is called with num_trials in 1..MaxTrials
MaxTrials == 2
\* number of calls of public methods in one behaviour
MaxCalls == 2

(***************************************************************************)
(* Program constants.                                                      *)
(***************************************************************************)
\* mean_reward = np.mean(y[-50:])
RewardWindow == 50

(***************************************************************************)
(* Exact arithmetic.                                                       *)
(***************************************************************************)
RECURSIVE Gcd(_, _)
Gcd(a, b) == IF b = 0 THEN a ELSE Gcd(b, a % b)

Abs(a) == IF a < 0 THEN -a ELSE a

\* the rational n/d in lowest terms (d > 0)
Rat(n, d) == LET g == Gcd(Abs(n), d) IN <<n \div g, d \div g>>

NegInf == <<-1, 0>>

RatGt(a, b) == a[1] * b[2] > b[1] * a[2]
RatGe(a, b) == a[1] * b[2] >= b[1] * a[2]
RatLe(a, b) == RatGe(b, a)

RECURSIVE Pow(_, _)
Pow(b, e) == IF e = 0 THEN 1 ELSE b * Pow(b, e - 1)

RECURSIVE SumSeq(_)
SumSeq(s) == IF s = <<>> THEN 0 ELSE Head(s) + SumSeq(Tail(s))

\* y[-k:]
LastK(y, k) == IF Len(y) <= k THEN y ELSE SubSeq(y, Len(y) - k + 1, Len(y))

\* np.mean(y) of a non-empty sequence of integers
Mean(y) == Rat(SumSeq(y), Len(y))

(***************************************************************************)
(* State.                                                                  *)
(***************************************************************************)
VARIABLES
    \* ---- what the collaborators may answer (fixed by Init)
    world,
    \* ---- fields of the trainer (self.*)
    hp,                 \* constructor arguments and max_ep_len
    env,                \* self.env
    oc,                 \* self.oc: the Model parameters
    oc_targ,            \* self.oc_targ: the Target Model parameters
    optimizer,          \* self.optimizer: its state (steps taken)
    replay_buffer,      \* self.replay_buffer: sequence of transitions
    best_mean_reward,   \* self.best_mean_reward
    logger,             \* self.logger: [EpRet, EpLen]
    save_dir,           \* the files of self.save_dir
    \* ---- locals of learn
    num_trials, trial, best_reward_trial,
    \* ---- locals of learn_one_trial
    timesteps, trial_num, timestep, epsilon, obs, state, ep_ret, ep_len,
    curr_op_len, option_termination, current_option, episode, option_lengths,
    done, burst,
    \* ---- control
    pc,                 \* position of the single thread of control
    caller,             \* who called learn_one_trial: "learn" or "direct"
    calls,              \* number of public calls so far
    training_calls,     \* number of calls of learn / learn_one_trial so far
    \* ---- history (not read by the program)
    hist

fields == <<hp, env, oc, oc_targ, optimizer, replay_buffer, best_mean_reward,
            logger, save_dir>>
learn_locals == <<num_trials, trial, best_reward_trial>>
trial_args == <<timesteps, trial_num>>
trial_locals == <<timestep, epsilon, obs, state, ep_ret, ep_len, curr_op_len,
                  option_termination, current_option, episode, option_lengths,
                  done, burst>>
control == <<pc, caller, calls, training_calls>>
vars == <<world, fields, learn_locals, trial_args, trial_locals, control, hist>>


RatAdd(a, b) == Rat(a[1] * b[2] + b[1] * a[2], a[2] * b[2])
RatSub(a, b) == Rat(a[1] * b[2] - b[1] * a[2], a[2] * b[2])
RatMul(a, b) == Rat(a[1] * b[1], a[2] * b[2])

(***************************************************************************)
(* Collaborators (not part of the source file).                            *)
(***************************************************************************)
\* Python's None / a value
None == <<>>
Some(v) == <<v>>

\* a transition as ReplayBuffer.append receives it
Transition(o, w, r, o2, d) ==
    [obs |-> o, option |-> w, reward |-> r, next_obs |-> o2, done |-> d]

\* ReplayBuffer(int(replay_size))
ReplayBuffer(capacity) == <<>>

\* ReplayBuffer.append: the oldest transition is evicted at capacity
ReplayAppend(buf, capacity, tr) ==
    IF Len(buf) < capacity THEN Append(buf, tr) ELSE Append(Tail(buf), tr)

\* ReplayBuffer.size()
Size(buf) == Len(buf)

\* Logger(): nothing stored
NewLogger == [EpRet |-> <<>>, EpLen |-> <<>>]

\* Logger.store(EpRet=..., EpLen=...)
LoggerStore(lg, ret, len) ==
    [EpRet |-> Append(lg.EpRet, ret), EpLen |-> Append(lg.EpLen, len)]

\* the rewards env.step may return: world.ramp = n >= 0 is the environment
\* that pays 0 in its first n episodes and 1 afterwards
StepRewards ==
    IF world.ramp >= 0
    THEN {IF env.resets <= world.ramp THEN 0 ELSE 1}
    ELSE world.Rewards

\* env.reset() returning observation o: the wrapper's normalisation
\* statistics take the observation in while env.training is set
EnvReset(e, o) ==
    [e EXCEPT !.obs = o, !.resets = @ + 1,
              !.norm = IF e.training THEN @ + 1 ELSE @]

\* env.step(action) returning observation o
EnvStep(e, o) ==
    [e EXCEPT !.obs = o, !.norm = IF e.training THEN @ + 1 ELSE @]

(***************************************************************************)
(* Pieces of the trainer's code.                                           *)
(***************************************************************************)
\* __init__: self.max_ep_len
MaxEpLen(max_episode_steps, max_ep_len) ==
    IF max_episode_steps # None THEN max_episode_steps[1] ELSE max_ep_len

\* exp(-timestep / eps_decay); hp.eps_decay holds exp(-1 / eps_decay) as a
\* rational, so that the power is exact
ExpNeg(t) == Rat(Pow(hp.eps_decay[1], t), Pow(hp.eps_decay[2], t))

\* (variant: the decay is applied to the previous epsilon)
update_epsilon_FromPrevious(eps, t) ==
    RatAdd(hp.eps_end, RatMul(RatSub(eps, hp.eps_end), ExpNeg(t)))

\* update_epsilon(eps, timestep)
update_epsilon(eps, t) ==
    RatAdd(hp.eps_end, RatMul(RatSub(hp.eps_start, hp.eps_end), ExpNeg(t)))

\* (variant: the done signal is stored as the environment returned it)
IgnoreTimeout_Never(d, len) == d

\* done = False if ep_len==self.max_ep_len else done
IgnoreTimeout(d, len) == IF len = hp.max_ep_len THEN FALSE ELSE d

\* (variant: the updates run whenever the buffer holds a batch)
UpdateDue_AnyStep(size, t) == size >= hp.batch_size

\* if self.replay_buffer.size() >= self.batch_size and timestep%self.update_every==0
UpdateDue(size, t) == size >= hp.batch_size /\ t % hp.update_every = 0

\* (variant: the weights of the blend are exchanged)
Polyak_Swapped(p_targ, p) ==
    RatAdd(RatMul(p, hp.polyak),
           RatMul(RatSub(<<1, 1>>, hp.polyak), p_targ))

\* update_target_network, one parameter:
\* p_targ.data.mul_(polyak); p_targ.data.add_((1 - polyak) * p.data)
Polyak(p_targ, p) ==
    RatAdd(RatMul(p_targ, hp.polyak),
           RatMul(RatSub(<<1, 1>>, hp.polyak), p))

\* (variant: only the done signal ends an episode)
EpisodeOver_DoneOnly(d, len) == d

\* if done or (ep_len==self.max_ep_len)
EpisodeOver(d, len) == d \/ len = hp.max_ep_len

\* mean_reward = np.mean(y[-50:])
MeanReward(y) == Mean(LastK(y, RewardWindow))

\* (variant: a mean equal to the best counts as a new best)
NewBest_OrEqual(mean_reward, best) == RatGe(mean_reward, best)

\* if mean_reward > self.best_mean_reward
NewBest(mean_reward, best) == RatGt(mean_reward, best)

\* if reward_threshold is not None and best_mean_reward >= reward_threshold
Solved(best) ==
    /\ env.reward_threshold # None
    /\ RatGe(best, <<env.reward_threshold[1], 1>>)

\* f"best_{trial_num}.pth"
BestTrialName(n) == "best_" \o ToString(n) \o ".pth"

\* save_weights: the name of the weights file
SaveName(best, fname) ==
    IF fname # None THEN fname[1]
    ELSE IF best THEN "best.pth" ELSE "model_weights.pth"

\* load_weights: the name of the weights file
LoadName(best) == IF best THEN "best.pth" ELSE "model_weights.pth"

\* the checkpoint dictionary of save_weights
Checkpoint == [oc |-> oc, oc_target |-> oc_targ, optimizer |-> optimizer]

\* save_weights writing weights file `name`: the files of save_dir afterwards
\* (torch.save, replay_buffer.save, env.save), with e the environment saved
SavedDir(name, e) ==
    [pth |-> [n \in DOMAIN save_dir.pth \cup {name} |->
                 IF n = name THEN Checkpoint ELSE save_dir.pth[n]],
     replay_buffer_pickle |-> Some(replay_buffer),
     env_json |-> Some(e.norm)]

(***************************************************************************)
(* The worlds: what the collaborators may answer, and how the trainer is   *)
(* constructed and called in each.                                         *)
(***************************************************************************)
Tenth(n) == Rat(n, 10)

\* hyperparameters shared by the small worlds
SmallHp ==
    [eps_start |-> Tenth(10), eps_end |-> Tenth(1), eps_decay |-> <<1, 2>>,
     batch_size |-> 2, update_every |-> 2, replay_size |-> 2,
     max_ep_len_arg |-> 2, polyak |-> <<1, 2>>, num_options |-> 1]

SmallWorld ==
    [name |-> "small", Obs |-> {0}, Rewards |-> {1}, Dones |-> {FALSE},
     Terms |-> {TRUE}, Params |-> {0}, ramp |-> -1,
     Timesteps |-> {MaxTimesteps}, Trials |-> 1..MaxTrials,
     max_calls |-> MaxCalls, max_training_calls |-> 1]

\* the done signal varies: episodes of different lengths and returns
EpisodesWorld ==
    [SmallWorld EXCEPT !.name = "episodes", !.Dones = BOOLEAN]

\* the reward varies
RewardsWorld ==
    [SmallWorld EXCEPT !.name = "rewards", !.Rewards = {0, 1}]

\* two options, termination sampled
OptionsWorld ==
    [SmallWorld EXCEPT !.name = "options", !.Terms = BOOLEAN]

\* two observations
ObservationsWorld ==
    [SmallWorld EXCEPT !.name = "observations", !.Obs = {0, 1}]

\* every call may be a training call, and save_dir may hold old files
RepeatWorld ==
    [SmallWorld EXCEPT !.name = "repeat", !.max_training_calls = MaxCalls]

\* gradient steps move the parameters
NetworksWorld ==
    [SmallWorld EXCEPT !.name = "networks", !.Params = {0, 1}]

\* the end-to-end scenario: a fresh trainer, one call learn_one_trial(20, 1),
\* reward +1 every step, never done
ToyWorld ==
    [SmallWorld EXCEPT !.name = "toy", !.Terms = BOOLEAN,
                       !.Timesteps = {20}, !.Trials = {1}, !.max_calls = 1]

\* RewardWindow + 2 episodes of one step each: the first pays 0, the others 1
RampWorld ==
    [SmallWorld EXCEPT !.name = "ramp", !.ramp = 1,
                       !.Timesteps = {RewardWindow + 2}, !.Trials = {1},
                       !.max_calls = 1]

Worlds ==
    {EpisodesWorld, RewardsWorld, OptionsWorld, ObservationsWorld,
     NetworksWorld, RepeatWorld, ToyWorld, RampWorld}

\* the constructor arguments tried in world w
HpChoices(w) ==
    CASE w.name = "episodes" ->
           {[SmallHp EXCEPT !.update_every = u] : u \in {1, 2}}
      [] w.name = "options" ->
           {[SmallHp EXCEPT !.num_options = 2, !.batch_size = b] : b \in {1, 3}}
      [] w.name = "networks" ->
           {[SmallHp EXCEPT !.batch_size = 1, !.update_every = u, !.polyak = k] :
               u \in {1, 2}, k \in {<<3, 4>>, <<1, 1>>}}
      [] w.name = "toy" ->
           {[SmallHp EXCEPT !.eps_decay = <<0, 1>>, !.batch_size = 4,
                            !.update_every = 1, !.replay_size = 100]}
      [] w.name = "ramp" ->
           {[SmallHp EXCEPT !.eps_decay = <<0, 1>>, !.replay_size = 1]}
      [] w.name = "repeat" ->
           {SmallHp,
            [SmallHp EXCEPT !.eps_start = Tenth(5), !.eps_end = Tenth(5)],
            [SmallHp EXCEPT !.eps_end = Tenth(0), !.eps_decay = <<1, 3>>,
                            !.batch_size = 1]}
      [] OTHER -> {SmallHp}

\* env.spec.max_episode_steps and env.spec.reward_threshold tried in world w
EnvSpecs(w) ==
    CASE w.name = "episodes" ->
           {[max_episode_steps |-> m, reward_threshold |-> r] :
               m \in {None, Some(1)}, r \in {None, Some(2)}}
      [] w.name = "rewards" ->
           {[max_episode_steps |-> Some(1), reward_threshold |-> r] :
               r \in {None, Some(1)}}
      [] w.name = "toy" ->
           {[max_episode_steps |-> Some(5), reward_threshold |-> None]}
      [] w.name = "ramp" ->
           {[max_episode_steps |-> Some(1), reward_threshold |-> None]}
      [] OTHER ->
           {[max_episode_steps |-> m, reward_threshold |-> None] :
               m \in {None, Some(1)}}

\* a checkpoint and a buffer written by an earlier run
OldCheckpoint == [oc |-> 3, oc_target |-> <<7, 2>>, optimizer |-> 4]
OldBuffer == <<Transition(0, 0, 1, 0, TRUE)>>
EmptyDir ==
    [pth |-> [n \in {} |-> OldCheckpoint], replay_buffer_pickle |-> None,
     env_json |-> None]

\* save_dir when the trainer is constructed
InitialDirs(w) ==
    IF w.name # "repeat" THEN {EmptyDir}
    ELSE {EmptyDir,
          [pth |-> [n \in {"best.pth"} |-> OldCheckpoint],
           replay_buffer_pickle |-> Some(OldBuffer), env_json |-> None],
          [pth |-> [n \in {"model_weights.pth"} |-> OldCheckpoint],
           replay_buffer_pickle |-> Some(OldBuffer), env_json |-> Some(9)]}

(***************************************************************************)
(* The initial state: the trainer as __init__ leaves it.                   *)
(***************************************************************************)
NoOptionLengths == [w \in {} |-> <<>>]

NewOptionLengths == [w \in 0..(hp.num_options - 1) |-> <<>>]

\* the locals of learn_one_trial outside a call
LocalsUndefined ==
    /\ timestep = 0 /\ epsilon = <<0, 1>> /\ obs = -1 /\ state = -1
    /\ ep_ret = 0 /\ ep_len = 0 /\ curr_op_len = 0
    /\ option_termination = FALSE /\ current_option = -1 /\ episode = 0
    /\ option_lengths = NoOptionLengths /\ done = FALSE /\ burst = 0

\* hist records what the program did, for the properties below:
\*   op, args   the public method called last, and its arguments
\*   raised     whether that call raised; errors counts the calls that raised
\*   env_done   the done signal env.step returned last
\*   appended   the transition handed to replay_buffer.append last
\*   updates    sac_update calls completed in this trial, and updates_before,
\*              their number when the last transition was appended
\*   first_skip the first timestep of this trial that is a multiple of
\*              update_every and at which no update ran (0: none so far)
\*   op_steps   environment steps since current_option was assigned last
\*   selected   whether get_option has been called in this trial
\*   closed     what the last pass through lines 289-292 logged, if it ran
\*   saves      checkpoints written by this trial
NoHistory ==
    [op |-> "none", args |-> None, raised |-> FALSE, errors |-> 0,
     env_done |-> FALSE, appended |-> None, updates |-> 0,
     updates_before |-> 0, first_skip |-> 0, op_steps |-> 0,
     selected |-> FALSE, closed |-> None, saves |-> 0]

Init ==
    /\ world \in Worlds
    /\ \E h \in HpChoices(world), sp \in EnvSpecs(world) :
          /\ hp = [eps_start |-> h.eps_start, eps_end |-> h.eps_end,
                   eps_decay |-> h.eps_decay, batch_size |-> h.batch_size,
                   update_every |-> h.update_every,
                   replay_size |-> h.replay_size, polyak |-> h.polyak,
                   num_options |-> h.num_options,
                   max_ep_len |-> MaxEpLen(sp.max_episode_steps,
                                           h.max_ep_len_arg)]
          /\ env = [max_episode_steps |-> sp.max_episode_steps,
                    reward_threshold |-> sp.reward_threshold,
                    obs |-> -1, norm |-> 0, training |-> TRUE, resets |-> 0]
    /\ oc \in world.Params
    /\ oc_targ = <<oc, 1>>
    /\ optimizer = 0
    /\ replay_buffer = ReplayBuffer(hp.replay_size)
    /\ best_mean_reward = NegInf
    /\ logger = NewLogger
    /\ save_dir \in InitialDirs(world)
    /\ num_trials = 0 /\ trial = 0 /\ best_reward_trial = NegInf
    /\ timesteps = 0 /\ trial_num = 0
    /\ LocalsUndefined
    /\ pc = "idle" /\ caller = "none" /\ calls = 0 /\ training_calls = 0
    /\ hist = NoHistory

(***************************************************************************)
(* Public methods called from outside.                                     *)
(***************************************************************************)
\* a method returns (or raises) to the caller: the locals are gone
Return ==
    /\ pc' = "idle" /\ caller' = "none"
    /\ timestep' = 0 /\ epsilon' = <<0, 1>> /\ obs' = -1 /\ state' = -1
    /\ ep_ret' = 0 /\ ep_len' = 0 /\ curr_op_len' = 0
    /\ option_termination' = FALSE /\ current_option' = -1 /\ episode' = 0
    /\ option_lengths' = NoOptionLengths /\ done' = FALSE /\ burst' = 0
    /\ timesteps' = 0 /\ trial_num' = 0
    /\ num_trials' = 0 /\ trial' = 0 /\ best_reward_trial' = NegInf

CanCall == pc = "idle" /\ calls < world.max_calls

CanTrain == CanCall /\ training_calls < world.max_training_calls

\* (variant: the replay buffer is not recreated)
ReinitFields_KeepBuffer(p) ==
    /\ best_mean_reward' = NegInf
    /\ oc' = p
    /\ oc_targ' = <<p, 1>>
    /\ replay_buffer' = replay_buffer
    /\ optimizer' = 0

\* reinit_network(): the fields it assigns, with p the parameters of the
\* newly created module
ReinitFields(p) ==
    /\ best_mean_reward' = NegInf
    /\ oc' = p
    /\ oc_targ' = <<p, 1>>
    /\ replay_buffer' = ReplayBuffer(hp.replay_size)
    /\ optimizer' = 0

reinit_network ==
    /\ CanCall /\ world.name \notin {"toy", "ramp"}
    /\ calls' = calls + 1
    /\ \E p \in world.Params : ReinitFields(p)
    /\ hist' = [hist EXCEPT !.op = "reinit_network", !.args = None,
                            !.raised = FALSE]
    /\ UNCHANGED <<world, hp, env, logger, save_dir, learn_locals, trial_args,
                   trial_locals, pc, caller, training_calls>>

save_weights ==
    /\ CanCall /\ world.name \notin {"toy", "ramp"}
    /\ calls' = calls + 1
    /\ \E best \in BOOLEAN :
          /\ save_dir' = SavedDir(SaveName(best, None), env)
          /\ hist' = [hist EXCEPT !.op = "save_weights", !.args = <<best>>,
                                  !.raised = FALSE]
    /\ UNCHANGED <<world, hp, env, oc, oc_targ, optimizer, replay_buffer,
                   best_mean_reward, logger, learn_locals, trial_args,
                   trial_locals, pc, caller, training_calls>>

\* load_weights(best, load_buffer) with the weights file present.  What
\* ReplayBuffer.load does with a missing replay_buffer.pickle is not part of
\* the source: the call is modelled for load_buffer = False or the file
\* present (save_weights writes it with every weights file, and so do the
\* initial directories).
LoadPresent(best, load_buffer) ==
    LET checkpoint == save_dir.pth[LoadName(best)] IN
    /\ replay_buffer' = IF load_buffer THEN save_dir.replay_buffer_pickle[1]
                        ELSE replay_buffer
    /\ oc' = checkpoint.oc
    /\ oc_targ' = checkpoint.oc_target
    /\ optimizer' = checkpoint.optimizer
    /\ env' = IF save_dir.env_json # None
              THEN [env EXCEPT !.norm = save_dir.env_json[1]]
              ELSE env
    /\ hist' = [hist EXCEPT !.op = "load_weights",
                            !.args = <<best, load_buffer>>, !.raised = FALSE]

\* (variant: the replay buffer is loaded before the weights file is looked
\* for)
LoadAbsent_BufferFirst(best, load_buffer) ==
    /\ replay_buffer' =
          IF load_buffer /\ save_dir.replay_buffer_pickle # None
          THEN save_dir.replay_buffer_pickle[1] ELSE replay_buffer
    /\ UNCHANGED <<oc, oc_targ, optimizer, env>>
    /\ hist' = [hist EXCEPT !.op = "load_weights",
                            !.args = <<best, load_buffer>>, !.raised = TRUE,
                            !.errors = @ + 1]

\* load_weights(best, load_buffer) with the weights file absent:
\* raise OSError("Checkpoint file not found.")
LoadAbsent(best, load_buffer) ==
    /\ UNCHANGED <<replay_buffer, oc, oc_targ, optimizer, env>>
    /\ hist' = [hist EXCEPT !.op = "load_weights",
                            !.args = <<best, load_buffer>>, !.raised = TRUE,
                            !.errors = @ + 1]

load_weights ==
    /\ CanCall /\ world.name \notin {"toy", "ramp"}
    /\ calls' = calls + 1
    /\ \E best \in BOOLEAN, load_buffer \in BOOLEAN :
          IF LoadName(best) \in DOMAIN save_dir.pth
          THEN /\ load_buffer => save_dir.replay_buffer_pickle # None
               /\ LoadPresent(best, load_buffer)
          ELSE LoadAbsent(best, load_buffer)
    /\ UNCHANGED <<world, hp, best_mean_reward, logger, save_dir,
                   learn_locals, trial_args, trial_locals, pc, caller, training_calls>>

\* learn(timesteps, num_trials), up to the first call of learn_one_trial
learn ==
    /\ CanTrain /\ world.name \notin {"toy", "ramp"}
    /\ calls' = calls + 1 /\ training_calls' = training_calls + 1
    /\ \E ts \in world.Timesteps, nt \in world.Trials :
          /\ timesteps' = ts /\ num_trials' = nt
          /\ hist' = [hist EXCEPT !.op = "learn", !.args = <<ts, nt>>,
                                  !.raised = FALSE]
    /\ env' = [env EXCEPT !.training = TRUE]
    /\ best_reward_trial' = NegInf
    /\ trial' = 0
    /\ trial_num' = 1
    /\ pc' = "trial_start" /\ caller' = "learn"
    /\ UNCHANGED <<world, hp, oc, oc_targ, optimizer, replay_buffer,
                   best_mean_reward, logger, save_dir, trial_locals>>

\* learn_one_trial(timesteps, trial_num) called from outside
call_learn_one_trial ==
    /\ CanTrain
    /\ calls' = calls + 1 /\ training_calls' = training_calls + 1
    /\ \E ts \in world.Timesteps, tn \in world.Trials :
          /\ timesteps' = ts /\ trial_num' = tn
          /\ hist' = [hist EXCEPT !.op = "learn_one_trial",
                                  !.args = <<ts, tn>>, !.raised = FALSE]
    /\ pc' = "trial_start" /\ caller' = "direct"
    /\ UNCHANGED <<world, fields, learn_locals, trial_locals>>

(***************************************************************************)
(* learn_one_trial(timesteps, trial_num).                                  *)
(***************************************************************************)
Options == 0..(hp.num_options - 1)

\* lines 279-284: before the loop
learn_one_trial ==
    /\ pc = "trial_start"
    /\ epsilon' = hp.eps_start
    /\ \E o \in world.Obs : /\ env' = EnvReset(env, o)
                            /\ obs' = o
    /\ ep_ret' = 0 /\ ep_len' = 0 /\ curr_op_len' = 0
    /\ option_termination' = TRUE
    /\ current_option' = 0
    /\ episode' = 0
    /\ option_lengths' = NewOptionLengths
    /\ timestep' = 0
    /\ pc' = "loop"
    /\ hist' = [hist EXCEPT !.env_done = FALSE, !.appended = None,
                            !.updates = 0, !.updates_before = 0,
                            !.first_skip = 0, !.op_steps = 0,
                            !.selected = FALSE, !.closed = None, !.saves = 0]
    /\ UNCHANGED <<world, hp, oc, oc_targ, optimizer, replay_buffer,
                   best_mean_reward, logger, save_dir, learn_locals,
                   trial_args, state, done, burst, caller, calls, training_calls>>

\* lines 286-292: the next timestep, its epsilon, and the option
select_option ==
    /\ pc = "loop" /\ timestep < timesteps
    /\ timestep' = timestep + 1
    /\ epsilon' = update_epsilon(epsilon, timestep')
    /\ IF option_termination
       THEN /\ option_lengths' =
                  [option_lengths EXCEPT ![current_option] = Append(@, curr_op_len)]
            /\ current_option' \in Options       \* get_option(obs, epsilon)
            /\ curr_op_len' = 0
            /\ hist' = [hist EXCEPT
                          !.closed = Some([option |-> current_option,
                                           logged |-> curr_op_len,
                                           steps |-> hist.op_steps,
                                           was_selected |-> hist.selected]),
                          !.op_steps = 0, !.selected = TRUE]
       ELSE /\ UNCHANGED <<option_lengths, current_option, curr_op_len>>
            /\ hist' = [hist EXCEPT !.closed = None]
    /\ pc' = "act"
    /\ UNCHANGED <<world, fields, learn_locals, trial_args, obs, state, ep_ret,
                   ep_len, option_termination, episode, done, burst, caller,
                   calls, training_calls>>

\* lines 296-311: act, step the environment, store the transition, advance
\* the observation, sample the termination of the current option
env_step ==
    /\ pc = "act"
    /\ \E next_obs \in world.Obs, reward \in StepRewards, d \in world.Dones :
          /\ env' = EnvStep(env, next_obs)
          /\ ep_ret' = ep_ret + reward
          /\ ep_len' = ep_len + 1
          /\ done' = IgnoreTimeout(d, ep_len')
          /\ replay_buffer' =
                ReplayAppend(replay_buffer, hp.replay_size,
                             Transition(obs, current_option, reward, next_obs,
                                        done'))
          /\ obs' = next_obs
          /\ hist' = [hist EXCEPT
                        !.env_done = d, !.op_steps = @ + 1,
                        !.updates_before = hist.updates,
                        !.appended = Some(Transition(obs, current_option,
                                                     reward, next_obs, done'))]
    /\ option_termination' \in world.Terms   \* predict_option_termination
    /\ pc' = "gate"
    /\ UNCHANGED <<world, hp, oc, oc_targ, optimizer, best_mean_reward, logger,
                   save_dir, learn_locals, trial_args, timestep, epsilon,
                   state, curr_op_len, current_option, episode, option_lengths,
                   burst, caller, calls, training_calls>>

\* lines 313-314: whether the updates run at this timestep
update_gate ==
    /\ pc = "gate"
    /\ IF UpdateDue(Size(replay_buffer), timestep)
       THEN /\ burst' = hp.update_every
            /\ pc' = "sac_update"
            /\ hist' = hist
       ELSE /\ burst' = 0
            /\ pc' = "episode"
            /\ hist' = [hist EXCEPT
                          !.first_skip =
                              IF @ = 0 /\ timestep % hp.update_every = 0
                              THEN timestep ELSE @]
    /\ UNCHANGED <<world, fields, learn_locals, trial_args, timestep, epsilon,
                   obs, state, ep_ret, ep_len, curr_op_len, option_termination,
                   current_option, episode, option_lengths, done, caller,
                   calls, training_calls>>

\* lines 315-316 and sac_update up to optimizer.step(): a batch is sampled
\* and the optimizer writes the Model parameters
sac_update ==
    /\ pc = "sac_update"
    /\ oc' \in world.Params
    /\ optimizer' = optimizer + 1
    /\ pc' = "update_target_network"
    /\ UNCHANGED <<world, hp, env, oc_targ, replay_buffer, best_mean_reward,
                   logger, save_dir, learn_locals, trial_args, trial_locals,
                   caller, calls, training_calls, hist>>

\* sac_update's last line: update_target_network()
update_target_network ==
    /\ pc = "update_target_network"
    /\ oc_targ' = Polyak(oc_targ, <<oc, 1>>)
    /\ burst' = burst - 1
    /\ pc' = IF burst' > 0 THEN "sac_update" ELSE "episode"
    /\ hist' = [hist EXCEPT !.updates = @ + 1]
    /\ UNCHANGED <<world, hp, env, oc, optimizer, replay_buffer,
                   best_mean_reward, logger, save_dir, learn_locals,
                   trial_args, timestep, epsilon, obs, state, ep_ret, ep_len,
                   curr_op_len, option_termination, current_option, episode,
                   option_lengths, done, caller, calls, training_calls>>

\* lines 319-344: end of episode handling
episode_end ==
    /\ pc = "episode" /\ EpisodeOver(done, ep_len)
    /\ logger' = LoggerStore(logger, ep_ret, ep_len)
    /\ \E o \in world.Obs : /\ env' = EnvReset(env, o)
                            /\ state' = o
    /\ ep_ret' = 0 /\ ep_len' = 0
    /\ option_lengths' = NewOptionLengths
    /\ episode' = episode + 1
    /\ LET x == logger'.EpLen
           y == logger'.EpRet
       IN  IF Len(x) > 0
           THEN /\ IF NewBest(MeanReward(y), best_mean_reward)
                   THEN /\ best_mean_reward' = MeanReward(y)
                        /\ save_dir' = SavedDir(BestTrialName(trial_num), env')
                        /\ hist' = [hist EXCEPT !.saves = @ + 1]
                   ELSE UNCHANGED <<best_mean_reward, save_dir, hist>>
                /\ pc' = IF Solved(best_mean_reward')
                         THEN "trial_done" ELSE "loop"
           ELSE /\ UNCHANGED <<best_mean_reward, save_dir, hist>>
                /\ pc' = "loop"
    /\ UNCHANGED <<world, hp, oc, oc_targ, optimizer, replay_buffer,
                   learn_locals, trial_args, timestep, epsilon, obs,
                   curr_op_len, option_termination, current_option, done,
                   burst, caller, calls, training_calls>>

\* line 319, condition false: the episode goes on
episode_continues ==
    /\ pc = "episode" /\ ~EpisodeOver(done, ep_len)
    /\ pc' = "loop"
    /\ UNCHANGED <<world, fields, learn_locals, trial_args, trial_locals,
                   caller, calls, training_calls, hist>>

\* the loop of line 286 is exhausted
loop_exit ==
    /\ pc = "loop" /\ timestep = timesteps
    /\ pc' = "trial_done"
    /\ UNCHANGED <<world, fields, learn_locals, trial_args, trial_locals,
                   caller, calls, training_calls, hist>>

\* learn_one_trial returns to an outside caller
trial_return ==
    /\ pc = "trial_done" /\ caller = "direct"
    /\ Return
    /\ UNCHANGED <<world, fields, calls, training_calls, hist>>

(***************************************************************************)
(* learn, lines 357-364: after a trial.                                    *)
(***************************************************************************)
learn_trial_end ==
    /\ pc = "trial_done" /\ caller = "learn"
    /\ LET better == RatGt(best_mean_reward, best_reward_trial) IN
       /\ save_dir' = IF better THEN SavedDir(SaveName(TRUE, None), env)
                      ELSE save_dir
       /\ logger' = NewLogger                 \* logger.reset()
       /\ \E p \in world.Params : ReinitFields(p)
       /\ IF trial + 1 < num_trials
          THEN /\ trial' = trial + 1
               /\ trial_num' = trial + 2
               /\ best_reward_trial' = IF better THEN best_mean_reward
                                       ELSE best_reward_trial
               /\ pc' = "trial_start"
               /\ UNCHANGED <<num_trials, timesteps, trial_locals, caller>>
          ELSE Return
    /\ UNCHANGED <<world, hp, env, calls, training_calls, hist>>

Next ==
    \/ reinit_network
    \/ save_weights
    \/ load_weights
    \/ learn
    \/ call_learn_one_trial
    \/ learn_one_trial
    \/ select_option
    \/ env_step
    \/ update_gate
    \/ sac_update
    \/ update_target_network
    \/ episode_end
    \/ episode_continues
    \/ loop_exit
    \/ trial_return
    \/ learn_trial_end

Spec == Init /\ [][Next]_vars

(***************************************************************************)
(* Properties.                                                             *)
(***************************************************************************)
\* the positions inside learn_one_trial
InTrial ==
    pc \in {"loop", "act", "gate", "sac_update", "update_target_network",
            "episode"}

\* C1: at every environment step of learn_one_trial, the transition handed
\* to the replay buffer has terminal flag False if the step brought ep_len
\* to max_ep_len (whatever done the environment returned), and the
\* environment's done otherwise; and at a step where ep_len equals
\* max_ep_len the episode ends all the same: its return and length are
\* logged, the environment is reset and the episode counters restart.
C1_TimeoutNotTerminal ==
    [][/\ (pc = "act" /\ pc' = "gate") =>
            /\ hist'.appended # None
            /\ replay_buffer' # <<>>
            /\ replay_buffer'[Len(replay_buffer')] = hist'.appended[1]
            /\ ep_len' = ep_len + 1
            /\ hist'.appended[1].done =
                  (IF ep_len' = hp.max_ep_len THEN FALSE ELSE hist'.env_done)
       /\ (pc = "episode" /\ ep_len = hp.max_ep_len) =>
            /\ logger'.EpRet = Append(logger.EpRet, ep_ret)
            /\ logger'.EpLen = Append(logger.EpLen, ep_len)
            /\ env'.resets = env.resets + 1
            /\ episode' = episode + 1
            /\ ep_len' = 0 /\ ep_ret' = 0
      ]_vars

\* C1 witness: the environment returned done = True at the step that brought
\* ep_len to max_ep_len, and the transition was stored with terminal False
C1_Witness ==
    /\ pc = "gate"
    /\ ep_len = hp.max_ep_len
    /\ hist.env_done = TRUE
    /\ hist.appended # None
    /\ hist.appended[1].done = FALSE

\* the parts of C2 that do not depend on how "skipped" is read: after the
\* transition of timestep t has been appended, sac_update has run
\* update_every times if the buffer holds at least batch_size transitions
\* and t is a multiple of update_every, and not at all otherwise; between
\* the append and the end of the updates the environment is not stepped and
\* nothing is appended; the updates of a trial never outnumber its
\* environment steps
C2_Bursts ==
    /\ pc' = "episode" =>
          hist'.updates - hist'.updates_before =
              (IF Len(replay_buffer') >= hp.batch_size
                  /\ timestep' % hp.update_every = 0
               THEN hp.update_every ELSE 0)
    /\ pc \in {"gate", "sac_update", "update_target_network"} =>
          /\ env' = env /\ replay_buffer' = replay_buffer
          /\ timestep' = timestep
          /\ pc' \in {"sac_update", "update_target_network", "episode"}
    /\ (pc \in {"sac_update", "update_target_network"} /\ pc' = "episode") =>
          burst' = 0
    /\ InTrial' => hist'.updates <= timestep'

C3_EndToEnd ==
    (world.name = "toy" /\ hist.op = "learn_one_trial") =>
        /\ hp.max_ep_len = 5 /\ hp.replay_size = 100 /\ hp.batch_size = 4
        /\ hp.update_every = 1 /\ hist.args = <<20, 1>>
        /\ InTrial =>
              /\ Len(replay_buffer) = (IF pc = "act" THEN timestep - 1
                                       ELSE timestep)
              /\ ("best_1.pth" \in DOMAIN save_dir.pth) <=>
                    (timestep >= 5 /\ (timestep = 5 => pc = "loop"))
              /\ ("best_1.pth" \in DOMAIN save_dir.pth) <=>
                    (best_mean_reward # NegInf)
        /\ pc \in {"trial_done", "idle"} =>
              /\ Len(replay_buffer) = 20
              /\ hist.updates >= 4
              /\ "best_1.pth" \in DOMAIN save_dir.pth
              /\ hist.saves >= 1

\* C3 witness: the scenario's call has ended with 20 transitions stored
C3_Witness ==
    /\ world.name = "toy"
    /\ pc = "trial_done"
    /\ timestep = 20
    /\ Len(replay_buffer) = 20
    /\ hist.updates >= 4
    /\ "best_1.pth" \in DOMAIN save_dir.pth

\* the steps of learn_one_trial, from its first line to its return
TrialStep == pc \in {"trial_start"} \/ InTrial

\* r is the mean of the last 50 entries of the non-empty sequence y
IsMeanOfLast50(r, y) ==
    LET n == IF Len(y) < 50 THEN Len(y) ELSE 50
        last == [i \in 1..n |-> y[Len(y) - n + i]]
    IN  /\ r[2] > 0
        /\ r[1] * n = SumSeq(last) * r[2]

\* C4: within one learn_one_trial best_mean_reward never decreases; it
\* changes only at an episode end, only to the mean return of the last 50
\* completed episodes, and only when that mean is strictly greater than
\* the current best; best_<trial_num>.pth is written at exactly those
\* episode ends (with the parameters, buffer and environment of that
\* moment) and at no other step of the trial.
C4_BestMeanReward ==
    [][TrialStep =>
        /\ RatGe(best_mean_reward', best_mean_reward)
        /\ (best_mean_reward' # best_mean_reward) =>
              /\ pc = "episode" /\ episode' = episode + 1
              /\ Len(logger'.EpRet) = Len(logger.EpRet) + 1
              /\ IsMeanOfLast50(best_mean_reward', logger'.EpRet)
              /\ RatGt(best_mean_reward', best_mean_reward)
        /\ (pc = "episode" /\ episode' = episode + 1
              /\ \E r \in {Rat(SumSeq(LastK(logger'.EpRet, 50)),
                               IF Len(logger'.EpRet) < 50
                               THEN Len(logger'.EpRet) ELSE 50)} :
                    RatGt(r, best_mean_reward)) =>
              best_mean_reward' # best_mean_reward
        /\ (save_dir' # save_dir \/ (InTrial /\ hist'.saves # hist.saves)) <=>
              (best_mean_reward' # best_mean_reward)
        /\ (best_mean_reward' # best_mean_reward) =>
              /\ hist'.saves = hist.saves + 1
              /\ DOMAIN save_dir'.pth =
                    DOMAIN save_dir.pth \cup
                       {"best_" \o ToString(trial_num) \o ".pth"}
              /\ save_dir'.pth["best_" \o ToString(trial_num) \o ".pth"] =
                    [oc |-> oc, oc_target |-> oc_targ, optimizer |-> optimizer]
      ]_vars

\* C4 witness: more than 50 episodes are logged and the mean of the last 50
\* (all of return 1) has just replaced a best of 49/50 taken over the first
\* 50, whose first episode returned 0
C4_Witness ==
    /\ world.name = "ramp"
    /\ pc = "loop"
    /\ Len(logger.EpRet) = 51
    /\ logger.EpRet[1] = 0
    /\ best_mean_reward = <<1, 1>>
    /\ hist.saves = 51

\* t2 = polyak * t1 + (1 - polyak) * p, for rationals t1, t2, polyak and an
\* integer p
IsBlend(t2, t1, p) ==
    LET k == hp.polyak IN
    t2[1] * (k[2] * t1[2]) = (k[1] * t1[1] + (k[2] - k[1]) * p * t1[2]) * t2[2]

\* C5: during a sac_update call the optimizer step writes the Model
\* parameters and leaves the Target parameters unchanged; the polyak update
\* writes the Target parameters, target = polyak*target + (1-polyak)*param
\* with param the already-updated Model parameters, and leaves the Model
\* and the optimizer unchanged; each happens exactly once per sac_update,
\* the optimizer step first and the polyak update directly after it.
C5_OptimizerThenPolyak ==
    [][/\ pc = "sac_update" =>
            /\ oc_targ' = oc_targ
            /\ optimizer' = optimizer + 1
            /\ hist'.updates = hist.updates
            /\ pc' = "update_target_network"
       /\ pc = "update_target_network" =>
            /\ oc' = oc
            /\ optimizer' = optimizer
            /\ IsBlend(oc_targ', oc_targ, oc)
            /\ hist'.updates = hist.updates + 1
            /\ pc' # "update_target_network"
       /\ pc' = "update_target_network" => pc = "sac_update"
       /\ (InTrial /\ InTrial' /\ oc' # oc) => pc = "sac_update"
       /\ (InTrial /\ InTrial' /\ oc_targ' # oc_targ) =>
            pc = "update_target_network"
      ]_vars

\* C5 witness: the optimizer has moved the Model away from the Target and
\* the polyak update that followed has blended the Target toward it by 1/4
C5_Witness ==
    /\ pc = "episode"
    /\ hp.polyak = <<3, 4>>
    /\ hist.updates = 1
    /\ optimizer = 1
    /\ oc = 1
    /\ oc_targ = <<1, 4>>

\* what reinit_network() leaves behind
Reinitialized ==
    /\ best_mean_reward' = NegInf
    /\ Len(replay_buffer') = 0
    /\ oc' \in world.Params
    /\ oc_targ' = <<oc', 1>>
    /\ optimizer' = 0

\* C6: reinit_network() leaves best_mean_reward at -infinity, the replay
\* buffer empty and the Target Model an exact copy of a newly created
\* Model; learn runs it at the end of every trial, after the trial's
\* best_mean_reward has been compared with the best of the earlier trials
\* and best.pth written (with the trained parameters and the trial's
\* buffer) exactly when it is strictly greater; so every trial after the
\* first starts with an empty replay buffer and best_mean_reward = -infinity.
C6_ReinitBetweenTrials ==
    [][/\ (hist'.op = "reinit_network" /\ calls' = calls + 1) =>
            /\ Reinitialized
            /\ save_dir' = save_dir
       /\ (pc = "trial_done" /\ caller = "learn") =>
            /\ Reinitialized
            /\ IF best_mean_reward[1] * best_reward_trial[2]
                    > best_reward_trial[1] * best_mean_reward[2]
               THEN /\ "best.pth" \in DOMAIN save_dir'.pth
                    /\ save_dir'.pth["best.pth"] =
                          [oc |-> oc, oc_target |-> oc_targ,
                           optimizer |-> optimizer]
                    /\ save_dir'.replay_buffer_pickle = <<replay_buffer>>
                    /\ pc' = "trial_start" =>
                          best_reward_trial' = best_mean_reward
               ELSE /\ save_dir' = save_dir
                    /\ pc' = "trial_start" =>
                          best_reward_trial' = best_reward_trial
            /\ pc' = IF trial + 1 < num_trials THEN "trial_start" ELSE "idle"
       /\ (pc = "trial_start" /\ caller = "learn" /\ trial >= 1) =>
            /\ Len(replay_buffer) = 0 /\ Len(replay_buffer') = 0
            /\ best_mean_reward = NegInf /\ best_mean_reward' = NegInf
            /\ pc' = "loop"
      ]_vars

\* C6 witness: the second trial of a learn call is about to take its first
\* step with an empty buffer, after a first trial whose non-empty buffer and
\* parameters went into best.pth
C6_Witness ==
    /\ pc = "loop" /\ timestep = 0
    /\ caller = "learn" /\ trial = 1
    /\ replay_buffer = <<>>
    /\ best_mean_reward = NegInf
    /\ best_reward_trial # NegInf
    /\ "best.pth" \in DOMAIN save_dir.pth
    /\ save_dir.replay_buffer_pickle # None
    /\ Len(save_dir.replay_buffer_pickle[1]) > 0

\* C7: load_weights raises when the selected weights file (best.pth for
\* best, model_weights.pth otherwise) is absent, and then the Model, the
\* Target Model, the optimizer, the replay buffer and the environment are
\* unchanged; when the weights file is present and env.json is absent the
\* call loads the checkpoint without raising and leaves the environment
\* unchanged.
C7_LoadWeights ==
    [][(hist'.op = "load_weights" /\ calls' = calls + 1) =>
         LET name == IF hist'.args[1] THEN "best.pth" ELSE "model_weights.pth"
         IN  /\ name \notin DOMAIN save_dir.pth =>
                  /\ hist'.raised
                  /\ hist'.errors = hist.errors + 1
                  /\ oc' = oc /\ oc_targ' = oc_targ
                  /\ optimizer' = optimizer
                  /\ replay_buffer' = replay_buffer
                  /\ env' = env
             /\ (name \in DOMAIN save_dir.pth /\ save_dir.env_json = <<>>) =>
                  /\ ~hist'.raised
                  /\ hist'.errors = hist.errors
                  /\ oc' = save_dir.pth[name].oc
                  /\ oc_targ' = save_dir.pth[name].oc_target
                  /\ optimizer' = save_dir.pth[name].optimizer
                  /\ env' = env
      ]_vars

\* C7 witness: a load_weights call has raised for a missing weights file
\* while replay_buffer.pickle was there to be loaded, and a later call has
\* loaded best.pth from a directory without env.json
C7_Witness ==
    /\ pc = "idle"
    /\ hist.op = "load_weights"
    /\ ~hist.raised
    /\ hist.errors = 1
    /\ hist.args[1] = TRUE
    /\ save_dir.env_json = None
    /\ save_dir.replay_buffer_pickle # None
    /\ "model_weights.pth" \notin DOMAIN save_dir.pth
    /\ oc = OldCheckpoint.oc
    /\ oc_targ = OldCheckpoint.oc_target

\* e = eps_end + (eps_start - eps_end) * exp(-t / eps_decay), with
\* exp(-1 / eps_decay) the rational hp.eps_decay
IsEpsilonAt(e, t) ==
    LET a == hp.eps_start
        b == hp.eps_end
        kn == Pow(hp.eps_decay[1], t)
        kd == Pow(hp.eps_decay[2], t)
    IN  e[1] * (a[2] * b[2] * kd) =
           (b[1] * a[2] * kd + (a[1] * b[2] - b[1] * a[2]) * kn) * e[2]

\* C8: with eps_start >= eps_end >= 0 and eps_decay > 0, the epsilon of
\* every timestep of a trial lies in [eps_end, eps_start], does not increase
\* from one timestep to the next, is
\* eps_end + (eps_start - eps_end) * exp(-t / eps_decay) for the timestep
\* counter t of the trial whatever the previous epsilon was, is eps_start
\* at t = 0, and is set to eps_start when a trial starts.
C8_Epsilon ==
    [][/\ (RatGe(hp.eps_start, hp.eps_end) /\ hp.eps_end[1] >= 0
             /\ hp.eps_decay[1] >= 0 /\ hp.eps_decay[1] < hp.eps_decay[2]) =>
            /\ InTrial' =>
                  /\ RatLe(hp.eps_end, epsilon')
                  /\ RatLe(epsilon', hp.eps_start)
                  /\ IsEpsilonAt(epsilon', timestep')
                  /\ timestep' = 0 => epsilon' = hp.eps_start
            /\ (InTrial /\ InTrial') =>
                  /\ RatLe(epsilon', epsilon)
                  /\ timestep' = timestep => epsilon' = epsilon
            /\ pc = "trial_start" =>
                  /\ epsilon' = hp.eps_start /\ timestep' = 0 /\ InTrial'
            /\ (pc = "loop" /\ pc' = "act") => timestep' = timestep + 1
      ]_vars

\* C8 witness: in the second trial of a learn call, at the second timestep,
\* epsilon is strictly between eps_end and eps_start and below the epsilon
\* of the first timestep
C8_Witness ==
    /\ pc = "act"
    /\ caller = "learn" /\ trial = 1
    /\ timestep = 2
    /\ hp.eps_start = <<1, 1>> /\ hp.eps_end = <<1, 10>>
    /\ hp.eps_decay = <<1, 2>>
    /\ epsilon = <<13, 40>>

\* C9 (as claimed): in learn_one_trial a new option is selected at a
\* timestep only when the termination flag is true; the flag is true at
\* the first step of every episode (the first step of the trial and the
\* first step after each episode end) and otherwise is what
\* predict_option_termination answered for the newest observation; at a
\* step where the flag is false current_option is left unchanged.
C9_Claim ==
    [][/\ (pc = "loop" /\ pc' = "act") =>
            /\ ep_len = 0 => option_termination
            /\ (hist'.closed # <<>>) => option_termination
            /\ ~option_termination =>
                  /\ current_option' = current_option
                  /\ hist'.closed = <<>>
       /\ (pc = "act" /\ pc' = "gate") =>
            /\ option_termination' \in world.Terms
            /\ obs' = env'.obs
       /\ pc = "trial_start" => option_termination'
      ]_vars

\* C10 (as claimed): whenever the termination flag is set and a new option
\* is selected, the value appended to option_lengths[old option] is the
\* number of environment steps executed under that option since it was
\* selected, and nothing is appended for an option that was never selected
\* (the first step of a trial); option_lengths is reset to empty sequences
\* at every episode end.
C10_Claim ==
    [][/\ (pc = "loop" /\ pc' = "act" /\ option_termination) =>
            IF hist.selected
            THEN option_lengths' =
                    [option_lengths EXCEPT
                        ![current_option] = Append(@, hist.op_steps)]
            ELSE option_lengths' = option_lengths
       /\ (pc = "episode" /\ episode' = episode + 1) =>
            \A w \in DOMAIN option_lengths' : option_lengths'[w] = <<>>
      ]_vars

\* C11 (as claimed): in learn_one_trial the observation used to select the
\* option, to pick the action and stored as the observation of a transition
\* is always the one the environment returned most recently (from
\* env.reset() or the previous env.step()); in particular the first
\* transition stored after an episode end has as observation the one
\* returned by the env.reset() of that episode end.
C11_Claim ==
    [][/\ (pc = "loop" /\ pc' = "act" /\ option_termination) =>
            obs = env.obs                        \* get_option(obs, epsilon)
       /\ (pc = "act" /\ pc' = "gate") =>
            /\ obs = env.obs                     \* get_action(obs, option)
            /\ hist'.appended # None
            /\ hist'.appended[1].obs = env.obs
            /\ replay_buffer'[Len(replay_buffer')].obs = env.obs
      ]_vars
=============================================================================
